---- MODULE Spec2Model ----
(***************************************************************************)
(* Vehicle-request approval workflow of the fleet-management application.  *)
(* The relational store (tables vehicle_requests and request_approvals)    *)
(* is the state; every REST handler of app/routers/request.py and          *)
(* app/routers/approval.py is one action.                                  *)
(***************************************************************************)
EXTENDS Integers, Sequences, FiniteSets, TLC

(***************************************************************************)
(* Bounds of the model.                                                    *)
(***************************************************************************)
\* number of request ids the serial primary key of vehicle_requests hands out
MaxRequests == 1
\* number of rows the request_approvals table may hold
MaxApprovals == 3
\* rows the table may hold where every approver of every step calls
\* (SpecActors)
MaxActorApprovals == 2
\* rows the table may hold where vehicles and drivers are assigned
\* (SpecAssign)
MaxAssignApprovals == 2
\* rows the table may hold where the listings are read (SpecViews)
MaxViewApprovals == 2
\* number of vehicles created
MaxVehicles == 2
\* number of fuel records created
MaxFuel == 2
\* last reading of the database clock
MaxTime == 3
\* number of trips created
MaxTrips == 2
\* number of trips created where the fuel eligibility is read
\* (SpecEligibility)
MaxEligibilityTrips == 1
\* number of concurrently running submit_approval calls (SpecConc)
MaxSessions == 2

(***************************************************************************)
(* Users and roles (tables user and roles).  Role names are stored as the  *)
(* administrator typed them; every handler lower-cases them before use.    *)
(***************************************************************************)
Users == 1..8

\* SQL NULL / Python None in an integer column
None == 0

RoleName(u) ==
    CASE u = 1 -> "user"
      [] u = 2 -> "Chef"
      [] u = 3 -> "Chef"
      [] u = 4 -> "logistic"
      [] u = 5 -> "logistic"
      [] u = 6 -> "charoi"
      [] u = 7 -> "Admin"
      [] u = 8 -> "superadmin"

\* user.service_id as the handlers read it.  The handlers test it for
\* None before use; user 3 is a chef for whom that test succeeds.
ServiceId(u) ==
    CASE u \in {1, 2, 7} -> 1
      [] u \in {4, 5, 6, 8} -> 2
      [] u = 3 -> None

\* str.lower() on the strings that occur in the model
Lower(s) ==
    CASE s = "Chef" -> "chef"
      [] s = "Admin" -> "admin"
      [] s = "Approved" -> "approved"
      [] OTHER -> s

\* the users whose calls each specification draws
Requesters == {1}
Callers == {1, 2, 4, 6, 7, 8}
Approvers == {2, 3, 4, 5, 6, 7, 8}
ConcCallers == {2, 3, 4}
Deleters == {7}

\* request body of POST /api/v1/approvals/{request_id}: status, comments
Decisions == {"Approved", "denied"}
Comments == {"ok"}

RequestIds == 1..MaxRequests
Sessions == 1..MaxSessions

VARIABLES
    users,       \* table user: the ids of the rows it holds
    requests,    \* table vehicle_requests: id -> [requester_id, status]
    approvals,   \* table request_approvals: request_id -> its rows, in
                 \* insertion (primary key) order
    next_id,     \* next value of the vehicle_requests id sequence
    assignment,  \* columns vehicle_id and driver_id of vehicle_requests:
                 \* id -> [vehicle_id, driver_id]
    last,        \* the most recent completed call and its HTTP status code
    sessions,    \* in-flight submit_approval calls (SpecConc)
    vehicles,    \* table vehicle, in id order: [plate_number, vin, status]
    fuel,        \* table fuel, in id order: [vehicle_id, quantity,
                 \* price_little, cost, created_at]
    trips,       \* table trip, in id order: [vehicle_id, driver_id,
                 \* start_time, end_time, status]
    accounts     \* columns role_id, status and first_name of table user:
                 \* id -> [role_id, status, first_name]

\* the tables of the fleet routers (vehicle, fuel, trip)
fleet == <<vehicles, fuel, trips>>

vars == <<users, requests, approvals, next_id, assignment, last, sessions,
          fleet, accounts>>

\* vehicle_id and driver_id of a request nobody has assigned, or of no row
Unassigned == [vehicle_id |-> None, driver_id |-> None]

NoCall == [op |-> "none", user |-> 0, rid |-> 0, code |-> 0]
Idle == [pc |-> "idle", user |-> 0, rid |-> 0, decision |-> "", step |-> 0,
         loaded |-> "", code |-> 0]

\* table roles: id -> name
RoleNames == <<"user", "Chef", "logistic", "charoi", "Admin", "superadmin">>

\* the role_id of the row of user u as it was created
RoleId(u) == CHOOSE id \in DOMAIN RoleNames : RoleNames[id] = RoleName(u)

Init ==
    /\ users = Users
    /\ requests = <<>>
    /\ approvals = [r \in RequestIds |-> <<>>]
    /\ next_id = 1
    /\ assignment = [r \in RequestIds |-> Unassigned]
    /\ last = NoCall
    /\ sessions = [p \in Sessions |-> Idle]
    /\ vehicles = <<>>
    /\ fuel = <<>>
    /\ trips = <<>>
    /\ accounts = [u \in Users |->
                      [role_id |-> RoleId(u), status |-> "active",
                       first_name |-> "a"]]

(***************************************************************************)
(* oauth2.require_role                                                     *)
(***************************************************************************)
require_role(u, allowed_roles) == Lower(RoleName(u)) \in allowed_roles

ApprovalRoles == {"chef", "logistic", "charoi", "admin", "superadmin"}

\* Variant: an administrator signs at the logistics step.
ApprovalStep_AdminAsLogistic(user_role) ==
    IF user_role = "chef" THEN 1
    ELSE IF user_role \in {"logistic", "admin"} THEN 2
    ELSE IF user_role \in {"charoi", "superadmin"} THEN 3
    ELSE 0

(***************************************************************************)
(* submit_approval, step 2: the approval step of a lower-cased role name   *)
(***************************************************************************)
ApprovalStep(user_role) ==
    IF user_role = "chef" THEN 1
    ELSE IF user_role = "logistic" THEN 2
    ELSE IF user_role \in {"charoi", "admin", "superadmin"} THEN 3
    ELSE 0

\* Variant: the query looks at the request's newest row only.
ExistingApproval_NewestOnly(rows, request_id, approval_step) ==
    {i \in 1..Len(rows[request_id]) :
        /\ i = Len(rows[request_id])
        /\ rows[request_id][i].request_id = request_id
        /\ rows[request_id][i].approval_step = approval_step}

(***************************************************************************)
(* submit_approval, step 3: the rows the existing-approval query matches   *)
(***************************************************************************)
ExistingApproval(rows, request_id, approval_step) ==
    {i \in 1..Len(rows[request_id]) :
        /\ rows[request_id][i].request_id = request_id
        /\ rows[request_id][i].approval_step = approval_step}

\* Variant: a denial cancels the request at the first step only.
NewStatus_DeniedAtChefOnly(old, decision, approval_step) ==
    IF decision = "denied" THEN
        IF approval_step = 1 THEN "denied" ELSE old
    ELSE IF decision = "approved" THEN
        IF approval_step = 1 THEN "approved_by_chef"
        ELSE IF approval_step = 2 THEN "approved_by_logistic"
        ELSE IF approval_step = 3 THEN "fully_approved"
        ELSE old
    ELSE old

\* Variant: the final approval puts the request in progress.
NewStatus_StartsAtStep3(old, decision, approval_step) ==
    IF decision = "denied" THEN "denied"
    ELSE IF decision = "approved" THEN
        IF approval_step = 1 THEN "approved_by_chef"
        ELSE IF approval_step = 2 THEN "approved_by_logistic"
        ELSE IF approval_step = 3 THEN "in_progress"
        ELSE old
    ELSE old

\* Variant: the step-2 branch repeats the step-1 status.
NewStatus_RepeatedBranch(old, decision, approval_step) ==
    IF decision = "denied" THEN "denied"
    ELSE IF decision = "approved" THEN
        IF approval_step = 1 THEN "approved_by_chef"
        ELSE IF approval_step = 2 THEN "approved_by_chef"
        ELSE IF approval_step = 3 THEN "fully_approved"
        ELSE old
    ELSE old

(***************************************************************************)
(* submit_approval, step 5: the request status after a decision            *)
(***************************************************************************)
NewStatus(old, decision, approval_step) ==
    IF decision = "denied" THEN "denied"
    ELSE IF decision = "approved" THEN
        IF approval_step = 1 THEN "approved_by_chef"
        ELSE IF approval_step = 2 THEN "approved_by_logistic"
        ELSE IF approval_step = 3 THEN "fully_approved"
        ELSE old
    ELSE old

\* the RequestApproval row of step 4
NewApproval(u, request_id, approval_step, d, c) ==
    [request_id |-> request_id, approver_id |-> u,
     approval_step |-> approval_step, status |-> Lower(d), comments |-> c]

\* Variant: a step is taken only by a row of the same approver.
SubmitCode_PerActor(u, request_id, reqs, rows) ==
    IF ~require_role(u, ApprovalRoles) THEN 403
    ELSE IF request_id \notin DOMAIN reqs THEN 404
    ELSE IF ApprovalStep(Lower(RoleName(u))) = 0 THEN 403
    ELSE IF \E i \in ExistingApproval(rows, request_id,
                                      ApprovalStep(Lower(RoleName(u)))) :
                rows[request_id][i].approver_id = u THEN 409
    ELSE 200

\* Variant: a step is open only once the step before it has a row.
SubmitCode_StepsInOrder(u, request_id, reqs, rows) ==
    IF ~require_role(u, ApprovalRoles) THEN 403
    ELSE IF request_id \notin DOMAIN reqs THEN 404
    ELSE IF ApprovalStep(Lower(RoleName(u))) = 0 THEN 403
    ELSE IF ExistingApproval(rows, request_id,
                             ApprovalStep(Lower(RoleName(u)))) # {} THEN 409
    ELSE IF /\ ApprovalStep(Lower(RoleName(u))) > 1
            /\ ExistingApproval(rows, request_id,
                   ApprovalStep(Lower(RoleName(u))) - 1) = {} THEN 409
    ELSE 200

\* HTTP status of submit_approval for caller u on request_id, rows as read
SubmitCode(u, request_id, reqs, rows) ==
    IF ~require_role(u, ApprovalRoles) THEN 403
    ELSE IF request_id \notin DOMAIN reqs THEN 404
    ELSE IF ApprovalStep(Lower(RoleName(u))) = 0 THEN 403
    ELSE IF ExistingApproval(rows, request_id,
                             ApprovalStep(Lower(RoleName(u)))) # {} THEN 409
    ELSE 200

(***************************************************************************)
(* POST /api/v1/requests/                                                  *)
(***************************************************************************)
create_request(u) ==
    /\ requests' = [i \in DOMAIN requests \cup {next_id} |->
                       IF i = next_id
                       THEN [requester_id |-> u, status |-> "pending"]
                       ELSE requests[i]]
    /\ next_id' = next_id + 1
    /\ assignment' = [assignment EXCEPT ![next_id] = Unassigned]
    /\ last' = [op |-> "create_request", user |-> u, rid |-> next_id,
                code |-> 201]
    /\ UNCHANGED <<fleet, accounts, users, approvals, sessions>>

\* Variant: the status is assigned before the existing-approval check and
\* survives the 409.
submit_approval_StatusBeforeCheck(u, request_id, d, c) ==
    LET code == SubmitCode(u, request_id, requests, approvals)
        approval_step == ApprovalStep(Lower(RoleName(u)))
    IN  /\ IF code = 200
           THEN /\ approvals' = [approvals EXCEPT ![request_id] = Append(@,
                       NewApproval(u, request_id, approval_step, d, c))]
                /\ requests' = [requests EXCEPT ![request_id].status =
                       NewStatus(@, Lower(d), approval_step)]
           ELSE IF code = 409
           THEN /\ approvals' = approvals
                /\ requests' = [requests EXCEPT ![request_id].status =
                       NewStatus(@, Lower(d), approval_step)]
           ELSE UNCHANGED <<requests, approvals>>
        /\ last' = [op |-> "submit_approval", user |-> u, rid |-> request_id,
                    code |-> code]
        /\ UNCHANGED <<fleet, accounts, users, next_id, assignment, sessions>>

\* Variant: the final approval inserts its row and leaves the status alone.
submit_approval_RowWithoutStatus(u, request_id, d, c) ==
    LET code == SubmitCode(u, request_id, requests, approvals)
        approval_step == ApprovalStep(Lower(RoleName(u)))
    IN  /\ IF code = 200
           THEN /\ approvals' = [approvals EXCEPT ![request_id] = Append(@,
                       NewApproval(u, request_id, approval_step, d, c))]
                /\ requests' = IF approval_step = 3 /\ Lower(d) = "approved"
                               THEN requests
                               ELSE [requests EXCEPT ![request_id].status =
                                       NewStatus(@, Lower(d), approval_step)]
           ELSE UNCHANGED <<requests, approvals>>
        /\ last' = [op |-> "submit_approval", user |-> u, rid |-> request_id,
                    code |-> code]
        /\ UNCHANGED <<fleet, accounts, users, next_id, assignment, sessions>>

\* Variant: a step that already has a row is decided again; the row takes
\* the new decision and the request the status that follows from it.
submit_approval_Redecides(u, request_id, d, c) ==
    LET code == SubmitCode(u, request_id, requests, approvals)
        approval_step == ApprovalStep(Lower(RoleName(u)))
    IN  /\ IF code = 200
           THEN /\ approvals' = [approvals EXCEPT ![request_id] = Append(@,
                       NewApproval(u, request_id, approval_step, d, c))]
                /\ requests' = [requests EXCEPT ![request_id].status =
                       NewStatus(@, Lower(d), approval_step)]
           ELSE IF code = 409
           THEN /\ approvals' = [approvals EXCEPT ![request_id] =
                       [i \in DOMAIN @ |->
                           IF @[i].approval_step = approval_step
                           THEN NewApproval(u, request_id, approval_step, d, c)
                           ELSE @[i]]]
                /\ requests' = [requests EXCEPT ![request_id].status =
                       NewStatus(@, Lower(d), approval_step)]
           ELSE UNCHANGED <<requests, approvals>>
        /\ last' = [op |-> "submit_approval", user |-> u, rid |-> request_id,
                    code |-> IF code = 409 THEN 200 ELSE code]
        /\ UNCHANGED <<fleet, accounts, users, next_id, assignment, sessions>>

(***************************************************************************)
(* POST /api/v1/approvals/{request_id}, run without overlap                *)
(***************************************************************************)
submit_approval(u, request_id, d, c) ==
    LET code == SubmitCode(u, request_id, requests, approvals)
        approval_step == ApprovalStep(Lower(RoleName(u)))
    IN  /\ IF code = 200
           THEN /\ approvals' = [approvals EXCEPT ![request_id] = Append(@,
                       NewApproval(u, request_id, approval_step, d, c))]
                /\ requests' = [requests EXCEPT ![request_id].status =
                       NewStatus(@, Lower(d), approval_step)]
           ELSE UNCHANGED <<requests, approvals>>
        /\ last' = [op |-> "submit_approval", user |-> u, rid |-> request_id,
                    code |-> code]
        /\ UNCHANGED <<fleet, accounts, users, next_id, assignment, sessions>>

\* Variant: the foreign key does not cascade; the rows stay behind.
CascadeDelete_KeepsRows(rows, id) == rows

(***************************************************************************)
(* DELETE /api/v1/requests/{id}; the rows of the request go with it        *)
(* (foreign key request_approvals.request_id, ON DELETE CASCADE)           *)
(***************************************************************************)
CascadeDelete(rows, id) ==
    [r \in DOMAIN rows |->
        SelectSeq(rows[r], LAMBDA row : row.request_id # id)]

\* Variant: the caller's role name is compared as stored.
DeleteCode_RoleAsStored(u, id, reqs) ==
    IF id \notin DOMAIN reqs THEN 404
    ELSE IF \/ RoleName(u) \in {"admin", "superadmin"}
            \/ (reqs[id].requester_id = u /\ Lower(reqs[id].status) = "pending")
         THEN 204
    ELSE 403

\* Variant: the owner may delete whatever the status.
DeleteCode_OwnerAnyStatus(u, id, reqs) ==
    IF id \notin DOMAIN reqs THEN 404
    ELSE IF \/ Lower(RoleName(u)) \in {"admin", "superadmin"}
            \/ reqs[id].requester_id = u
         THEN 204
    ELSE 403

DeleteCode(u, id, reqs) ==
    IF id \notin DOMAIN reqs THEN 404
    ELSE IF \/ Lower(RoleName(u)) \in {"admin", "superadmin"}
            \/ (reqs[id].requester_id = u /\ Lower(reqs[id].status) = "pending")
         THEN 204
    ELSE 403

delete_request(u, id) ==
    LET code == DeleteCode(u, id, requests)
    IN  /\ IF code = 204
           THEN /\ requests' = [i \in DOMAIN requests \ {id} |-> requests[i]]
                /\ approvals' = CascadeDelete(approvals, id)
                /\ assignment' = [assignment EXCEPT ![id] = Unassigned]
           ELSE UNCHANGED <<requests, approvals, assignment>>
        /\ last' = [op |-> "delete_request", user |-> u, rid |-> id,
                    code |-> code]
        /\ UNCHANGED <<fleet, accounts, users, next_id, sessions>>

(***************************************************************************)
(* Guards that keep the id sequence and the approvals table within the     *)
(* bounds of a specification.                                              *)
(***************************************************************************)
RECURSIVE CountRows(_, _)
CountRows(rows, n) ==
    IF n = 0 THEN 0 ELSE Len(rows[n]) + CountRows(rows, n - 1)

IdsLeft(max) == next_id <= max
RowsLeft(max) == CountRows(approvals, MaxRequests) < max

\* a submission that would insert needs room in the table
Room(u, r, max) ==
    SubmitCode(u, r, requests, approvals) = 200 => RowsLeft(max)

Next ==
    \/ \E u \in Requesters : IdsLeft(MaxRequests) /\ create_request(u)
    \/ \E u \in Callers, r \in RequestIds, d \in Decisions, c \in Comments :
           Room(u, r, MaxApprovals) /\ submit_approval(u, r, d, c)
    \/ \E u \in Callers, r \in RequestIds : delete_request(u, r)

Spec == Init /\ [][Next]_vars

NextActors ==
    \/ \E u \in Requesters : IdsLeft(MaxRequests) /\ create_request(u)
    \/ \E u \in Approvers, r \in RequestIds, d \in Decisions, c \in Comments :
           Room(u, r, MaxActorApprovals) /\ submit_approval(u, r, d, c)
    \/ \E u \in Deleters, r \in RequestIds : delete_request(u, r)

SpecActors == Init /\ [][NextActors]_vars

(***************************************************************************)
(* PUT /api/v1/requests/{id}/assign                                        *)
(***************************************************************************)
\* ids of the vehicle and of the driver (a user) a body may name
VehicleIds == {1}
DriverIds == {6}

\* request body: vehicle_id, driver_id, each optional; model_dump with
\* exclude_unset keeps the fields the caller sent
AssignmentBodies ==
    {[vehicle_id |-> v] : v \in VehicleIds}
        \cup {[driver_id |-> dr] : dr \in DriverIds}
        \cup {[vehicle_id |-> v, driver_id |-> dr] :
                  v \in VehicleIds, dr \in DriverIds}

\* the body {}: no field sent
EmptyBody == [f \in {} |-> None]

AssignmentRoles == {"admin", "superadmin", "charoi", "logistic"}

AssignCode(u, id, reqs) ==
    IF ~require_role(u, AssignmentRoles) THEN 403
    ELSE IF id \notin DOMAIN reqs THEN 404
    ELSE 200

\* Variant: an assignment also moves the request to in_progress.
update_request_assignment_StartsTrip(u, id, assignment_data) ==
    \E code \in IF AssignCode(u, id, requests) = 200
                    /\ DOMAIN assignment_data = {}
                 THEN {200, 500}
                 ELSE {AssignCode(u, id, requests)} :
        /\ assignment' =
               IF code = 200
               THEN [assignment EXCEPT ![id] =
                        [f \in DOMAIN @ |->
                            IF f \in DOMAIN assignment_data
                            THEN assignment_data[f] ELSE @[f]]]
               ELSE assignment
        /\ requests' =
               IF code = 200
               THEN [requests EXCEPT ![id].status = "in_progress"]
               ELSE requests
        /\ last' = [op |-> "update_request_assignment", user |-> u,
                    rid |-> id, code |-> code]
        /\ UNCHANGED <<fleet, accounts, users, approvals, next_id, sessions>>

\* request_query.update(update_data) with no field in update_data is an
\* UPDATE without a SET clause; whether the ORM emits it and the database
\* refuses it (500) or it is a no-op (200) depends on the library version:
\* both outcomes are drawn, and neither writes
update_request_assignment(u, id, assignment_data) ==
    \E code \in IF AssignCode(u, id, requests) = 200
                    /\ DOMAIN assignment_data = {}
                 THEN {200, 500}
                 ELSE {AssignCode(u, id, requests)} :
        /\ assignment' =
               IF code = 200
               THEN [assignment EXCEPT ![id] =
                        [f \in DOMAIN @ |->
                            IF f \in DOMAIN assignment_data
                            THEN assignment_data[f] ELSE @[f]]]
               ELSE assignment
        /\ last' = [op |-> "update_request_assignment", user |-> u,
                    rid |-> id, code |-> code]
        /\ UNCHANGED <<fleet, accounts, users, requests, approvals, next_id, sessions>>

\* the users whose calls SpecAssign draws
AssignRequesters == {1, 4}
AssignApprovers == {2, 6}
AssignCallers == {2, 6}

NextAssign ==
    \/ \E u \in AssignRequesters : IdsLeft(MaxRequests) /\ create_request(u)
    \/ \E u \in AssignApprovers, r \in RequestIds, d \in Decisions,
          c \in Comments :
           Room(u, r, MaxAssignApprovals) /\ submit_approval(u, r, d, c)
    \/ \E u \in AssignCallers, r \in RequestIds,
          assignment_data \in AssignmentBodies \cup {EmptyBody} :
           update_request_assignment(u, r, assignment_data)
    \/ \E u \in Deleters, r \in RequestIds : delete_request(u, r)

SpecAssign == Init /\ [][NextAssign]_vars

(***************************************************************************)
(* DELETE /users/{id}.  The foreign keys vehicle_requests.requester_id,    *)
(* vehicle_requests.driver_id and request_approvals.approver_id are        *)
(* declared ON DELETE SET NULL.                                            *)
(***************************************************************************)
SetNull(value, id) == IF value = id THEN None ELSE value

DeleteUserCode(u, id, rows) ==
    IF ~require_role(u, {"admin", "superadmin"}) THEN 403
    ELSE IF id \notin rows THEN 404
    ELSE 204

delete_user(u, id) ==
    LET code == DeleteUserCode(u, id, users)
    IN  /\ IF code = 204
           THEN /\ users' = users \ {id}
                /\ requests' = [i \in DOMAIN requests |->
                       [requests[i] EXCEPT !.requester_id = SetNull(@, id)]]
                /\ approvals' = [r \in DOMAIN approvals |->
                       [i \in 1..Len(approvals[r]) |->
                           [approvals[r][i] EXCEPT
                               !.approver_id = SetNull(@, id)]]]
                /\ assignment' = [r \in DOMAIN assignment |->
                       [assignment[r] EXCEPT !.driver_id = SetNull(@, id)]]
           ELSE UNCHANGED <<fleet, accounts, users, requests, approvals, assignment>>
        /\ last' = [op |-> "delete_user", user |-> u, rid |-> id,
                    code |-> code]
        /\ UNCHANGED <<fleet, accounts, next_id, sessions>>

\* the users an administrator removes in SpecUsers
DeletableUsers == {1, 2}

\* every call is made by a user the table still holds: the token of a
\* deleted user is refused before a handler runs
NextUsers ==
    \/ \E u \in AssignRequesters \cap users :
           IdsLeft(MaxRequests) /\ create_request(u)
    \/ \E u \in AssignApprovers \cap users, r \in RequestIds,
          d \in Decisions, c \in Comments :
           Room(u, r, MaxAssignApprovals) /\ submit_approval(u, r, d, c)
    \/ \E u \in Deleters \cap users, r \in RequestIds : delete_request(u, r)
    \/ \E u \in Deleters \cap users, id \in DeletableUsers :
           delete_user(u, id)

SpecUsers == Init /\ [][NextUsers]_vars

(***************************************************************************)
(* The read handlers of app/routers/request.py.  They write nothing; each  *)
(* is an operator on the tables as they are, giving the HTTP status code   *)
(* and, for the listings, the ids of the requests returned, in order.      *)
(***************************************************************************)
\* ORDER BY created_at DESC: requests are created one after the other, so
\* the newest has the highest id
NewestFirst(ids) ==
    [i \in 1..Cardinality(ids) |->
        CHOOSE x \in ids : Cardinality({y \in ids : y > x}) = i - 1]

\* LIMIT limit OFFSET skip
Window(rows, limit, skip) ==
    SubSeq(rows, skip + 1,
           IF skip + limit < Len(rows) THEN skip + limit ELSE Len(rows))

\* query parameters limit and skip of the listings
Limits == 0..2
Skips == 0..2

ListingRoles == {"admin", "superadmin", "logistic", "charoi", "chef"}

\* Variant: the logistic and the charoi filter each test the other's status.
RoleFilter_QueuesSwapped(u, id) ==
    LET user_role == Lower(RoleName(u))
    IN  IF user_role = "chef"
        THEN /\ requests[id].requester_id \in users
             /\ ServiceId(requests[id].requester_id) = ServiceId(u)
        ELSE IF user_role = "logistic"
        THEN requests[id].status = "approved_by_logistic"
        ELSE IF user_role = "charoi"
        THEN requests[id].status = "approved_by_chef"
        ELSE TRUE

\* Variant: the logistic officer keeps the requests the logistic step has
\* approved.
RoleFilter_LogisticKeeps(u, id) ==
    LET user_role == Lower(RoleName(u))
    IN  IF user_role = "chef"
        THEN /\ requests[id].requester_id \in users
             /\ ServiceId(requests[id].requester_id) = ServiceId(u)
        ELSE IF user_role = "logistic"
        THEN requests[id].status \in {"approved_by_chef", "approved_by_logistic"}
        ELSE IF user_role = "charoi"
        THEN requests[id].status = "approved_by_logistic"
        ELSE TRUE

\* Variant: the charoi's filter is never applied.
RoleFilter_CharoiSeesAll(u, id) ==
    LET user_role == Lower(RoleName(u))
    IN  IF user_role = "chef"
        THEN /\ requests[id].requester_id \in users
             /\ ServiceId(requests[id].requester_id) = ServiceId(u)
        ELSE IF user_role = "logistic"
        THEN requests[id].status = "approved_by_chef"
        ELSE TRUE

\* Variant: the chef's filter is never applied.
RoleFilter_ChefSeesAll(u, id) ==
    LET user_role == Lower(RoleName(u))
    IN  IF user_role = "logistic"
        THEN requests[id].status = "approved_by_chef"
        ELSE IF user_role = "charoi"
        THEN requests[id].status = "approved_by_logistic"
        ELSE TRUE

\* get_all_requests: the filter the caller's role adds to the query; the
\* chef's is an inner join with the requester's user row
RoleFilter(u, id) ==
    LET user_role == Lower(RoleName(u))
    IN  IF user_role = "chef"
        THEN /\ requests[id].requester_id \in users
             /\ ServiceId(requests[id].requester_id) = ServiceId(u)
        ELSE IF user_role = "logistic"
        THEN requests[id].status = "approved_by_chef"
        ELSE IF user_role = "charoi"
        THEN requests[id].status = "approved_by_logistic"
        ELSE TRUE

\* GET /api/v1/requests/
get_all_requests(u, limit, skip) ==
    IF ~require_role(u, ListingRoles)
    THEN [code |-> 403, body |-> <<>>]
    ELSE IF Lower(RoleName(u)) = "chef" /\ ServiceId(u) = None
    THEN [code |-> 200, body |-> <<>>]
    ELSE [code |-> 200,
          body |-> Window(NewestFirst({id \in DOMAIN requests :
                                          RoleFilter(u, id)}),
                          limit, skip)]

\* Variant: the listing is not filtered by requester.
get_my_requests_Unfiltered(u, limit, skip) ==
    [code |-> 200,
     body |-> Window(NewestFirst(DOMAIN requests), limit, skip)]

\* GET /api/v1/requests/my-requests
get_my_requests(u, limit, skip) ==
    [code |-> 200,
     body |-> Window(NewestFirst({id \in DOMAIN requests :
                                     requests[id].requester_id = u}),
                     limit, skip)]

\* Variant: a chef with a service may view the requests of every service.
get_request_by_id_AnyService(u, id) ==
    IF id \notin DOMAIN requests THEN [code |-> 404, body |-> None]
    ELSE LET db_request == requests[id]
             user_role == Lower(RoleName(u))
             user_service_id == ServiceId(u)
             is_privileged_viewer ==
                 user_role \in {"admin", "superadmin", "logistic", "charoi"}
             is_owner == db_request.requester_id = u
             is_chef_with_same_service ==
                 /\ user_role = "chef"
                 /\ user_service_id # None
                 /\ db_request.requester_id \in users
         IN  IF is_privileged_viewer \/ is_owner \/ is_chef_with_same_service
             THEN [code |-> 200, body |-> id]
             ELSE [code |-> 403, body |-> None]

\* GET /api/v1/requests/{id}
get_request_by_id(u, id) ==
    IF id \notin DOMAIN requests THEN [code |-> 404, body |-> None]
    ELSE LET db_request == requests[id]
             user_role == Lower(RoleName(u))
             user_service_id == ServiceId(u)
             is_privileged_viewer ==
                 user_role \in {"admin", "superadmin", "logistic", "charoi"}
             is_owner == db_request.requester_id = u
             is_chef_with_same_service ==
                 /\ user_role = "chef"
                 /\ user_service_id # None
                 /\ db_request.requester_id \in users
                 /\ ServiceId(db_request.requester_id) = user_service_id
         IN  IF is_privileged_viewer \/ is_owner \/ is_chef_with_same_service
             THEN [code |-> 200, body |-> id]
             ELSE [code |-> 403, body |-> None]

\* the users whose calls SpecViews draws
ViewRequesters == {1, 4}
ViewApprovers == {2, 4, 6}
ViewDeletable == {1}

NextViews ==
    \/ \E u \in ViewRequesters \cap users :
           IdsLeft(MaxRequests) /\ create_request(u)
    \/ \E u \in ViewApprovers, r \in RequestIds, d \in Decisions,
          c \in Comments :
           Room(u, r, MaxViewApprovals) /\ submit_approval(u, r, d, c)
    \/ \E u \in Deleters, r \in RequestIds : delete_request(u, r)
    \/ \E u \in Deleters, id \in ViewDeletable : delete_user(u, id)

SpecViews == Init /\ [][NextViews]_vars

(***************************************************************************)
(* app/routers/vehicle.py.  Vehicles are numbered in the order of their    *)
(* creation; plate_number and vin each carry a unique constraint.          *)
(***************************************************************************)
\* the tables of the request and approval routers and of the user router
workflow ==
    <<users, requests, approvals, next_id, assignment, sessions, accounts>>

\* request body VehicleCreate: plate_number, vin (the other fields do not
\* bear on any check)
Plates == {"A", "B"}
Vins == {"X", "Y"}
VehicleBodies == [plate_number : Plates, vin : Vins]

AdminRoles == {"admin", "superadmin"}

\* the vehicles other than id that hold the plate number or the vin of data
SamePlateOrVin(rows, id, vehicle_data) ==
    {j \in 1..Len(rows) :
        /\ j # id
        /\ \/ rows[j].plate_number = vehicle_data.plate_number
           \/ rows[j].vin = vehicle_data.vin}

\* POST /api/v1/vehicles/
create_vehicle(u, vehicle_data) ==
    LET code == IF ~require_role(u, AdminRoles) THEN 403
                ELSE IF SamePlateOrVin(vehicles, 0, vehicle_data) # {}
                THEN 409
                ELSE 201
    IN  /\ vehicles' =
               IF code = 201
               THEN Append(vehicles,
                           [plate_number |-> vehicle_data.plate_number,
                            vin |-> vehicle_data.vin,
                            status |-> "available"])
               ELSE vehicles
        /\ last' = [op |-> "create_vehicle", user |-> u,
                    rid |-> Len(vehicles) + 1, code |-> code,
                    data |-> vehicle_data]
        /\ UNCHANGED <<workflow, fuel, trips>>

\* PUT /api/v1/vehicles/{id}: the handler updates without looking for
\* another holder of the plate number or vin; the unique constraints of
\* the table refuse the UPDATE, the IntegrityError is not caught and the
\* call ends with 500
update_vehicle(u, id, vehicle_data) ==
    LET code == IF ~require_role(u, AdminRoles) THEN 403
                ELSE IF id \notin 1..Len(vehicles) THEN 404
                ELSE IF SamePlateOrVin(vehicles, id, vehicle_data) # {}
                THEN 500
                ELSE 200
    IN  /\ vehicles' =
               IF code = 200
               THEN [vehicles EXCEPT
                        ![id].plate_number = vehicle_data.plate_number,
                        ![id].vin = vehicle_data.vin]
               ELSE vehicles
        /\ last' = [op |-> "update_vehicle", user |-> u, rid |-> id,
                    code |-> code, data |-> vehicle_data]
        /\ UNCHANGED <<workflow, fuel, trips>>

VehicleIdsLeft(max) == Len(vehicles) < max

\* the users whose calls SpecVehicles draws
VehicleCallers == {1, 7}

NextVehicles ==
    \/ \E u \in VehicleCallers, vehicle_data \in VehicleBodies :
           VehicleIdsLeft(MaxVehicles) /\ create_vehicle(u, vehicle_data)
    \/ \E u \in VehicleCallers, id \in 1..MaxVehicles,
          vehicle_data \in VehicleBodies :
           update_vehicle(u, id, vehicle_data)

SpecVehicles == Init /\ [][NextVehicles]_vars

(***************************************************************************)
(* app/routers/fuel.py.  Fuel records are numbered in the order of their   *)
(* creation; created_at is the database clock at the insert.               *)
(***************************************************************************)
\* readings of the database clock, and the times a trip body may carry
Times == 1..MaxTime

\* rows of table fuel_type
FuelTypes == {1}

\* request body FuelCreatePayload: bodies for vehicle 1 with a quantity and
\* a price above, at and below zero, one for a second vehicle and one
\* for a fuel type that does not exist
QuantityAndPrice ==
    {<<2, 1>>, <<1, 2>>, <<0, 1>>, <<1, 0>>, <<-1, 2>>, <<2, -1>>}
FuelBodies ==
    {[vehicle_id |-> 1, fuel_type_id |-> 1, quantity |-> qp[1],
      price_little |-> qp[2]] : qp \in QuantityAndPrice}
        \cup {[vehicle_id |-> 2, fuel_type_id |-> 1, quantity |-> 1,
                price_little |-> 1],
               [vehicle_id |-> 1, fuel_type_id |-> 2, quantity |-> 1,
                price_little |-> 1]}

\* request body FuelUpdatePayload, every field optional: the bodies that
\* set the quantity, the price, both, or the vehicle
FuelUpdateBodies ==
    {[quantity |-> q] : q \in {-1, 0, 1}}
        \cup {[price_little |-> pl] : pl \in {-1, 0, 2}}
        \cup {[quantity |-> 2, price_little |-> 0],
               [quantity |-> 2, price_little |-> 2],
               [vehicle_id |-> 2]}

\* the database clock does not run backwards
ClockAt(now) == \A i \in 1..Len(fuel) : fuel[i].created_at <= now

\* Variant: only the quantity is validated.
FuelCreateCode_QuantityOnly(fuel_payload) ==
    IF fuel_payload.vehicle_id \notin 1..Len(vehicles) THEN 404
    ELSE IF fuel_payload.fuel_type_id \notin FuelTypes THEN 404
    ELSE IF fuel_payload.quantity <= 0 THEN 400
    ELSE 201

FuelCreateCode(fuel_payload) ==
    IF fuel_payload.vehicle_id \notin 1..Len(vehicles) THEN 404
    ELSE IF fuel_payload.fuel_type_id \notin FuelTypes THEN 404
    ELSE IF fuel_payload.quantity <= 0 THEN 400
    ELSE IF fuel_payload.price_little <= 0 THEN 400
    ELSE 201

\* POST /api/v1/fuel/
create_new_fuel_record(u, fuel_payload, now) ==
    LET code == FuelCreateCode(fuel_payload)
    IN  /\ ClockAt(now)
        /\ fuel' =
               IF code = 201
               THEN Append(fuel,
                      [vehicle_id |-> fuel_payload.vehicle_id,
                       fuel_type_id |-> fuel_payload.fuel_type_id,
                       quantity |-> fuel_payload.quantity,
                       price_little |-> fuel_payload.price_little,
                       cost |-> fuel_payload.quantity
                                    * fuel_payload.price_little,
                       created_at |-> now])
               ELSE fuel
        /\ last' = [op |-> "create_new_fuel_record", user |-> u,
                    rid |-> Len(fuel) + 1, code |-> code,
                    data |-> fuel_payload]
        /\ UNCHANGED <<workflow, vehicles, trips>>

FuelUpdateCode(u, fuel_id, update_data) ==
    IF ~require_role(u, AdminRoles) THEN 403
    ELSE IF fuel_id \notin 1..Len(fuel) THEN 404
    ELSE IF /\ "vehicle_id" \in DOMAIN update_data
            /\ update_data.vehicle_id # fuel[fuel_id].vehicle_id
            /\ update_data.vehicle_id \notin 1..Len(vehicles) THEN 404
    ELSE IF /\ "fuel_type_id" \in DOMAIN update_data
            /\ update_data.fuel_type_id # fuel[fuel_id].fuel_type_id
            /\ update_data.fuel_type_id \notin FuelTypes THEN 404
    ELSE IF "quantity" \in DOMAIN update_data /\ update_data.quantity <= 0
         THEN 400
    ELSE IF /\ "price_little" \in DOMAIN update_data
            /\ update_data.price_little <= 0 THEN 400
    ELSE 200

\* PUT /api/v1/fuel/{fuel_id}
update_existing_fuel_record(u, fuel_id, fuel_payload) ==
    LET code == FuelUpdateCode(u, fuel_id, fuel_payload)
        written == [f \in DOMAIN fuel[fuel_id] |->
                       IF f \in DOMAIN fuel_payload THEN fuel_payload[f]
                       ELSE fuel[fuel_id][f]]
        recalculate_cost_flag ==
            \/ "quantity" \in DOMAIN fuel_payload
            \/ "price_little" \in DOMAIN fuel_payload
    IN  /\ fuel' =
               IF code = 200
               THEN [fuel EXCEPT ![fuel_id] =
                        IF recalculate_cost_flag
                        THEN [written EXCEPT
                                 !.cost = written.quantity
                                              * written.price_little]
                        ELSE written]
               ELSE fuel
        /\ last' = [op |-> "update_existing_fuel_record", user |-> u,
                    rid |-> fuel_id, code |-> code, data |-> fuel_payload]
        /\ UNCHANGED <<workflow, vehicles, trips>>

FuelIdsLeft(max) == Len(fuel) < max

\* the calls SpecFuel draws: the administrator registers vehicles, a plain
\* user and the administrator enter and correct fuel records
FleetVehicleBodies ==
    {[plate_number |-> "A", vin |-> "X"], [plate_number |-> "B", vin |-> "Y"]}
FuelClock == {1}
FuelCallers == {1, 7}

NextFuel ==
    \/ \E vehicle_data \in FleetVehicleBodies :
           VehicleIdsLeft(MaxVehicles) /\ create_vehicle(7, vehicle_data)
    \/ \E fuel_payload \in FuelBodies, now \in FuelClock :
           FuelIdsLeft(MaxFuel) /\ create_new_fuel_record(1, fuel_payload, now)
    \/ \E u \in FuelCallers, fuel_id \in 1..MaxFuel,
          fuel_payload \in FuelUpdateBodies :
           update_existing_fuel_record(u, fuel_id, fuel_payload)

SpecFuel == Init /\ [][NextFuel]_vars

(***************************************************************************)
(* app/routers/trip.py.  The router asks for no authentication.  Trips are *)
(* numbered in the order of their creation; end_time may be NULL.          *)
(***************************************************************************)
\* rows of table driver
Drivers == {1, 2}

\* vehicle_id and driver_id of a trip body; there is no driver 3
TripParties == {<<1, 1>>, <<2, 2>>, <<1, 2>>}
TripStrangers == {<<1, 3>>}

\* start_time and end_time of a trip body
TripTimes == {<<1, 2>>, <<2, 3>>, <<2, None>>}

\* request body TripCreate
TripBodies ==
    {[vehicle_id |-> party[1], driver_id |-> party[2],
      start_time |-> time[1], end_time |-> time[2]] :
        party \in TripParties, time \in TripTimes}
    \cup {[vehicle_id |-> party[1], driver_id |-> party[2],
           start_time |-> 1, end_time |-> 2] : party \in TripStrangers}

\* request body TripUpdate, model_dump(exclude_unset=True)
TripUpdateBodies ==
    {[end_time |-> 3], [end_time |-> None], [start_time |-> 1],
     [vehicle_id |-> 1], [driver_id |-> 1], EmptyBody}

\* Variant: only the vehicle is looked at, not the driver.
Overlapping_VehicleOnly(rows, trip_id, vehicle_id, driver_id, start_time, end_time) ==
    {j \in 1..Len(rows) :
        /\ j # trip_id
        /\ rows[j].vehicle_id = vehicle_id
        /\ rows[j].end_time # None
        /\ rows[j].end_time > start_time
        /\ rows[j].start_time < end_time}

\* the overlap query: the trips other than trip_id of the vehicle or of
\* the driver that end after start_time and start before end_time; a NULL
\* end_time satisfies no comparison
Overlapping(rows, trip_id, vehicle_id, driver_id, start_time, end_time) ==
    {j \in 1..Len(rows) :
        /\ j # trip_id
        /\ \/ rows[j].vehicle_id = vehicle_id
           \/ rows[j].driver_id = driver_id
        /\ rows[j].end_time # None
        /\ rows[j].end_time > start_time
        /\ rows[j].start_time < end_time}

TripCreateCode(trip_payload) ==
    IF trip_payload.vehicle_id \notin 1..Len(vehicles) THEN 404
    ELSE IF trip_payload.driver_id \notin Drivers THEN 404
    ELSE IF /\ trip_payload.end_time # None
            /\ Overlapping(trips, None, trip_payload.vehicle_id,
                           trip_payload.driver_id, trip_payload.start_time,
                           trip_payload.end_time) # {}
    THEN 409
    ELSE 201

\* POST /trip/
create_new_trip(trip_payload) ==
    LET code == TripCreateCode(trip_payload)
    IN  /\ trips' =
               IF code = 201
               THEN Append(trips,
                           [vehicle_id |-> trip_payload.vehicle_id,
                            driver_id |-> trip_payload.driver_id,
                            start_time |-> trip_payload.start_time,
                            end_time |-> trip_payload.end_time,
                            status |-> "planned"])
               ELSE trips
        /\ last' = [op |-> "create_new_trip", user |-> None,
                    rid |-> Len(trips) + 1, code |-> code,
                    data |-> trip_payload]
        /\ UNCHANGED <<workflow, vehicles, fuel>>

\* update_data.get(key, default)
Get(update_data, key, default) ==
    IF key \in DOMAIN update_data THEN update_data[key] ELSE default

TripUpdateCode(trip_id, update_data) ==
    IF trip_id \notin 1..Len(trips) THEN 404
    ELSE IF /\ "vehicle_id" \in DOMAIN update_data
            /\ update_data.vehicle_id # trips[trip_id].vehicle_id
            /\ update_data.vehicle_id \notin 1..Len(vehicles) THEN 404
    ELSE IF /\ "driver_id" \in DOMAIN update_data
            /\ update_data.driver_id # trips[trip_id].driver_id
            /\ update_data.driver_id \notin Drivers THEN 404
    ELSE LET db_trip == trips[trip_id]
             check_start_time ==
                 Get(update_data, "start_time", db_trip.start_time)
             check_end_time ==
                 IF "end_time" \notin DOMAIN update_data
                    /\ DOMAIN update_data # {}
                 THEN db_trip.end_time
                 ELSE Get(update_data, "end_time", None)
             check_vehicle_id ==
                 Get(update_data, "vehicle_id", db_trip.vehicle_id)
             check_driver_id ==
                 Get(update_data, "driver_id", db_trip.driver_id)
         IN  IF /\ check_end_time # None
                /\ Overlapping(trips, trip_id, check_vehicle_id,
                               check_driver_id, check_start_time,
                               check_end_time) # {}
             THEN 409
             ELSE 200

\* PUT /trip/{trip_id}
update_existing_trip(trip_id, trip_payload) ==
    LET code == TripUpdateCode(trip_id, trip_payload)
    IN  /\ trips' =
               IF code = 200
               THEN [trips EXCEPT ![trip_id] =
                        [f \in DOMAIN @ |-> Get(trip_payload, f, @[f])]]
               ELSE trips
        /\ last' = [op |-> "update_existing_trip", user |-> None,
                    rid |-> trip_id, code |-> code, data |-> trip_payload]
        /\ UNCHANGED <<workflow, vehicles, fuel>>

TripIdsLeft(max) == Len(trips) < max

NextTrips ==
    \/ \E vehicle_data \in FleetVehicleBodies :
           VehicleIdsLeft(MaxVehicles) /\ create_vehicle(7, vehicle_data)
    \/ \E trip_payload \in TripBodies :
           TripIdsLeft(MaxTrips) /\ create_new_trip(trip_payload)
    \/ \E trip_id \in 1..MaxTrips, trip_payload \in TripUpdateBodies :
           update_existing_trip(trip_id, trip_payload)

SpecTrips == Init /\ [][NextTrips]_vars

(***************************************************************************)
(* PATCH /api/v1/vehicles/{id}/status and                                  *)
(* GET /api/v1/fuel/check-eligibility/{vehicle_id}.  The second writes     *)
(* nothing: it is an operator on the tables as they are, giving the HTTP   *)
(* status code and the eligible field of the answer.                       *)
(***************************************************************************)
\* request body VehicleStatusUpdate; the handler takes any status
VehicleStatuses == {"available", "maintenance"}

update_vehicle_status(u, id, status_update) ==
    LET code == IF ~require_role(u, AdminRoles) THEN 403
                ELSE IF id \notin 1..Len(vehicles) THEN 404
                ELSE 200
    IN  /\ vehicles' = IF code = 200
                       THEN [vehicles EXCEPT ![id].status = status_update]
                       ELSE vehicles
        /\ last' = [op |-> "update_vehicle_status", user |-> u, rid |-> id,
                    code |-> code, data |-> [status |-> status_update]]
        /\ UNCHANGED <<workflow, fuel, trips>>

\* Variant: the trip is compared with the vehicle's first fuel record.
check_fuel_eligibility_FirstRecord(vehicle_id) ==
    IF vehicle_id \notin 1..Len(vehicles)
    THEN [code |-> 404, eligible |-> FALSE]
    ELSE IF vehicles[vehicle_id].status # "available"
    THEN [code |-> 200, eligible |-> FALSE]
    ELSE LET records == {i \in 1..Len(fuel) : fuel[i].vehicle_id = vehicle_id}
         IN  IF records # {}
             THEN LET last_fuel_record ==
                          CHOOSE i \in records : \A j \in records :
                              fuel[j].created_at >= fuel[i].created_at
                      last_fueling_time == fuel[last_fuel_record].created_at
                      completed_trip_exists ==
                          \E t \in 1..Len(trips) :
                              /\ trips[t].vehicle_id = vehicle_id
                              /\ trips[t].status = "Completed"
                              /\ trips[t].end_time # None
                              /\ trips[t].end_time > last_fueling_time
                  IN  [code |-> 200, eligible |-> completed_trip_exists]
             ELSE [code |-> 200, eligible |-> TRUE]

\* the newest fuel record of the vehicle is the first of ORDER BY
\* created_at DESC; a NULL end_time satisfies no comparison
check_fuel_eligibility(vehicle_id) ==
    IF vehicle_id \notin 1..Len(vehicles)
    THEN [code |-> 404, eligible |-> FALSE]
    ELSE IF vehicles[vehicle_id].status # "available"
    THEN [code |-> 200, eligible |-> FALSE]
    ELSE LET records == {i \in 1..Len(fuel) : fuel[i].vehicle_id = vehicle_id}
         IN  IF records # {}
             THEN LET last_fuel_record ==
                          CHOOSE i \in records : \A j \in records :
                              fuel[j].created_at <= fuel[i].created_at
                      last_fueling_time == fuel[last_fuel_record].created_at
                      completed_trip_exists ==
                          \E t \in 1..Len(trips) :
                              /\ trips[t].vehicle_id = vehicle_id
                              /\ trips[t].status = "Completed"
                              /\ trips[t].end_time # None
                              /\ trips[t].end_time > last_fueling_time
                  IN  [code |-> 200, eligible |-> completed_trip_exists]
             ELSE [code |-> 200, eligible |-> TRUE]

\* the calls SpecEligibility draws: the administrator registers vehicles
\* and sets their status, a user buys fuel for vehicle 1 at clock readings
\* 1 and 3, trips are entered and completed
EligibilityFuelBodies ==
    {[vehicle_id |-> 1, fuel_type_id |-> 1, quantity |-> 2, price_little |-> 1]}
EligibilityClock == {1, MaxTime}
EligibilityTripBodies ==
    {[vehicle_id |-> 1, driver_id |-> 1, start_time |-> 1, end_time |-> 2],
     [vehicle_id |-> 2, driver_id |-> 2, start_time |-> 1, end_time |-> 2],
     [vehicle_id |-> 1, driver_id |-> 1, start_time |-> 2, end_time |-> None]}
EligibilityTripUpdates == {[status |-> "Completed"]}

NextEligibility ==
    \/ \E vehicle_data \in FleetVehicleBodies :
           VehicleIdsLeft(MaxVehicles) /\ create_vehicle(7, vehicle_data)
    \/ \E id \in 1..MaxVehicles, status_update \in VehicleStatuses :
           update_vehicle_status(7, id, status_update)
    \/ \E fuel_payload \in EligibilityFuelBodies, now \in EligibilityClock :
           FuelIdsLeft(MaxFuel) /\ create_new_fuel_record(1, fuel_payload, now)
    \/ \E trip_payload \in EligibilityTripBodies :
           TripIdsLeft(MaxEligibilityTrips) /\ create_new_trip(trip_payload)
    \/ \E trip_id \in 1..MaxEligibilityTrips,
          trip_payload \in EligibilityTripUpdates :
           update_existing_trip(trip_id, trip_payload)

SpecEligibility == Init /\ [][NextEligibility]_vars

(***************************************************************************)
(* PUT /users/{id}.  The caller is the user of the bearer token; a token   *)
(* of a user whose status is not 'active' is refused with 401 before the   *)
(* handler runs.  The handler compares the caller's role name with         *)
(* "admin" and "superadmin" as it is stored, without lower-casing it.      *)
(***************************************************************************)
\* request body UserUpdate, model_dump(exclude_unset=True); role 9 is not
\* in table roles
UserUpdateBodies ==
    {[first_name |-> "b"], [role_id |-> 6], [role_id |-> 9],
     [status |-> "suspended"], [status |-> "active"],
     [first_name |-> "b", status |-> "active"], EmptyBody}

\* Variant: the role and status fields are guarded only on other users'
\* rows.
UpdateUserCode_OwnRowFree(u, id, update_data) ==
    LET is_admin == RoleNames[accounts[u].role_id] \in {"admin", "superadmin"}
        is_updating_self == u = id
    IN  IF u \notin users \/ accounts[u].status # "active" THEN 401
        ELSE IF id \notin users THEN 404
        ELSE IF ~is_admin /\ ~is_updating_self THEN 403
        ELSE IF /\ "role_id" \in DOMAIN update_data
                /\ update_data.role_id \notin DOMAIN RoleNames THEN 404
        ELSE 200

UpdateUserCode(u, id, update_data) ==
    LET is_admin == RoleNames[accounts[u].role_id] \in {"admin", "superadmin"}
        is_updating_self == u = id
    IN  IF u \notin users \/ accounts[u].status # "active" THEN 401
        ELSE IF id \notin users THEN 404
        ELSE IF ~is_admin /\ ~is_updating_self THEN 403
        ELSE IF /\ ~is_admin
                /\ \/ "role_id" \in DOMAIN update_data
                   \/ "status" \in DOMAIN update_data THEN 403
        ELSE IF /\ "role_id" \in DOMAIN update_data
                /\ update_data.role_id \notin DOMAIN RoleNames THEN 404
        ELSE 200

\* an UPDATE without a SET clause (empty body) is left to the ORM and the
\* database: it ends with 200 or with an uncaught error, and writes nothing
update_user(u, id, user_data) ==
    \E code \in IF UpdateUserCode(u, id, user_data) = 200
                    /\ DOMAIN user_data = {}
                 THEN {200, 500}
                 ELSE {UpdateUserCode(u, id, user_data)} :
        /\ accounts' =
               IF code = 200
               THEN [accounts EXCEPT ![id] =
                        [f \in DOMAIN @ |-> Get(user_data, f, @[f])]]
               ELSE accounts
        /\ last' = [op |-> "update_user", user |-> u, rid |-> id,
                    code |-> code, data |-> user_data]
        /\ UNCHANGED <<fleet, users, requests, approvals, next_id,
                       assignment, sessions>>

\* the users whose calls SpecAccounts draws, and the ids they address;
\* there is no user 9
AccountCallers == {1, 7, 8}
AccountTargets == {1, 2, 9}

NextAccounts ==
    \E u \in AccountCallers, id \in AccountTargets,
       user_data \in UserUpdateBodies : update_user(u, id, user_data)

SpecAccounts == Init /\ [][NextAccounts]_vars

(***************************************************************************)
(* POST /api/v1/approvals/{request_id} as overlapping calls.  Each call    *)
(* has its own Session; the engine is created without an isolation level,  *)
(* so PostgreSQL runs every statement at READ COMMITTED: each query sees   *)
(* what is committed when it runs, and nothing is written before commit.   *)
(***************************************************************************)
\* require_role, then steps 1 and 2: find the request, determine the step
sa_find(p, u, request_id, d) ==
    LET code == IF ~require_role(u, ApprovalRoles) THEN 403
                ELSE IF request_id \notin DOMAIN requests THEN 404
                ELSE IF ApprovalStep(Lower(RoleName(u))) = 0 THEN 403
                ELSE 0
    IN  /\ sessions[p].pc = "idle"
        /\ sessions' = [sessions EXCEPT ![p] =
               [pc |-> IF code = 0 THEN "found" ELSE "done",
                user |-> u, rid |-> request_id, decision |-> d,
                step |-> ApprovalStep(Lower(RoleName(u))),
                loaded |-> IF code = 0 THEN requests[request_id].status
                           ELSE "",
                code |-> code]]
        /\ UNCHANGED <<fleet, accounts, users, requests, approvals, next_id, assignment, last>>

\* step 3: the existing-approval query and its 409
sa_check(p) ==
    /\ sessions[p].pc = "found"
    /\ sessions' = [sessions EXCEPT ![p] =
           IF ExistingApproval(approvals, sessions[p].rid,
                               sessions[p].step) # {}
           THEN [@ EXCEPT !.pc = "done", !.code = 409]
           ELSE [@ EXCEPT !.pc = "checked"]]
    /\ UNCHANGED <<fleet, accounts, users, requests, approvals, next_id, assignment, last>>

\* steps 4 and 5 and db.commit(): the flush writes the request's status when
\* the assignment changed the loaded value, inserts the row and commits; a
\* request deleted in the meantime fails the flush and nothing is written
sa_commit(p) ==
    LET s == sessions[p]
        status == NewStatus(s.loaded, Lower(s.decision), s.step)
    IN  /\ s.pc = "checked"
        /\ IF s.rid \in DOMAIN requests
           THEN /\ approvals' = [approvals EXCEPT ![s.rid] = Append(@,
                       NewApproval(s.user, s.rid, s.step, s.decision, "ok"))]
                /\ requests' = IF status # s.loaded
                               THEN [requests EXCEPT ![s.rid].status = status]
                               ELSE requests
                /\ sessions' = [sessions EXCEPT ![p].pc = "done",
                                                ![p].code = 200]
           ELSE /\ UNCHANGED <<requests, approvals>>
                /\ sessions' = [sessions EXCEPT ![p].pc = "done",
                                                ![p].code = 500]
        /\ UNCHANGED <<fleet, accounts, users, next_id, assignment, last>>

NextConc ==
    \/ \E u \in Requesters : IdsLeft(MaxRequests) /\ create_request(u)
    \/ \E u \in Deleters, r \in RequestIds : delete_request(u, r)
    \/ \E p \in Sessions, u \in ConcCallers, r \in RequestIds,
          d \in Decisions : sa_find(p, u, r, d)
    \/ \E p \in Sessions : sa_check(p)
    \/ \E p \in Sessions : sa_commit(p)

SpecConc == Init /\ [][NextConc]_vars

(***************************************************************************)
(* Properties                                                              *)
(***************************************************************************)
Steps == 1..3

\* the positions of request r's rows decided at step s
RowsAt(r, s) == {i \in 1..Len(approvals[r]) : approvals[r][i].approval_step = s}

\* the most recently inserted row of request r
LatestRow(r) == approvals[r][Len(approvals[r])]

StepOfUser(u) == ApprovalStep(Lower(RoleName(u)))

\* the last call was submit_approval and ended with one of these codes
Submitted(codes) == last.op = "submit_approval" /\ last.code \in codes

\* C1: with non-overlapping create_request, submit_approval and
\* delete_request calls, every request has at most one approval row per
\* approval step.
C1_OneRowPerStep ==
    \A r \in RequestIds, s \in Steps : Cardinality(RowsAt(r, s)) <= 1

\* all three steps of a request are decided and a further submission was
\* turned away
C1_Witness ==
    \E r \in DOMAIN requests :
        /\ \A s \in Steps : Cardinality(RowsAt(r, s)) = 1
        /\ Submitted({409})
        /\ last.rid = r

\* C2: two overlapping submit_approval calls for the same request and step
\* never both succeed, and no request gets two rows for one step.
C2_NoDoubleSuccess ==
    /\ \A p, q \in Sessions :
           (/\ p # q
            /\ sessions[p].code = 200 /\ sessions[q].code = 200
            /\ sessions[p].rid = sessions[q].rid)
           => sessions[p].step # sessions[q].step
    /\ \A r \in RequestIds, s \in Steps : Cardinality(RowsAt(r, s)) < 2

\* C3: a submit_approval call that ends in 403, 404 or 409 leaves the
\* approval rows and every request as they were; a submission for a step
\* that is already decided ends in 409.
C3_FailurePersistsNothing ==
    [][/\ (last'.op = "submit_approval" /\ last'.code \in {403, 404, 409})
           => (approvals' = approvals /\ requests' = requests)
       /\ (/\ last'.op = "submit_approval"
           /\ last'.rid \in DOMAIN requests
           /\ RowsAt(last'.rid, StepOfUser(last'.user)) # {})
           => last'.code = 409]_vars

\* a second submission for the only decided step was answered 409
C3_Witness ==
    /\ Submitted({409})
    /\ last.rid \in DOMAIN requests
    /\ Len(approvals[last.rid]) = 1
    /\ LatestRow(last.rid).approval_step = StepOfUser(last.user)

\* C4: once a request is denied, no submit_approval call gives it another
\* status.
C4_DeniedIsTerminal ==
    [][\A r \in DOMAIN requests :
          (/\ requests[r].status = "denied"
           /\ last'.op = "submit_approval"
           /\ r \in DOMAIN requests')
          => requests'[r].status = "denied"]_vars

\* C5: once a request is fully_approved, no submit_approval call changes
\* its status.
C5_FullyApprovedIsTerminal ==
    [][\A r \in DOMAIN requests :
          (/\ requests[r].status = "fully_approved"
           /\ last'.op = "submit_approval"
           /\ r \in DOMAIN requests')
          => requests'[r].status = "fully_approved"]_vars

\* C6: a successful submit_approval with decision denied, at any step and
\* after any earlier rows, leaves the request denied.
C6_DenialSetsDenied ==
    (/\ Submitted({200})
     /\ LatestRow(last.rid).status = "denied")
    => requests[last.rid].status = "denied"

\* a step-3 denial after two approvals has just been accepted
C6_Witness ==
    /\ Submitted({200})
    /\ Len(approvals[last.rid]) = 3
    /\ approvals[last.rid][1].status = "approved"
    /\ approvals[last.rid][2].status = "approved"
    /\ LatestRow(last.rid).status = "denied"
    /\ LatestRow(last.rid).approval_step = 3

\* request r has exactly n rows, decided in step order 1..n and all approved
InOrder(r, n) ==
    /\ Len(approvals[r]) = n
    /\ \A i \in 1..n : /\ approvals[r][i].approval_step = i
                       /\ approvals[r][i].status = "approved"

StatusAfter(n) ==
    CASE n = 0 -> "pending"
      [] n = 1 -> "approved_by_chef"
      [] n = 2 -> "approved_by_logistic"
      [] n = 3 -> "fully_approved"

\* C7: a new request is pending with no rows, and from there approved
\* submissions by chef, then logistic, then a step-3 role are accepted and
\* move the status through approved_by_chef, approved_by_logistic and
\* fully_approved, with 1, 2 and 3 rows.
C7_InOrderChain ==
    [][/\ last'.op = "create_request"
          => (/\ requests'[last'.rid].status = "pending"
              /\ approvals'[last'.rid] = <<>>)
       /\ \A r \in DOMAIN requests, n \in 0..2 :
             (/\ InOrder(r, n)
              /\ requests[r].status = StatusAfter(n)
              /\ last'.op = "submit_approval"
              /\ last'.rid = r
              /\ StepOfUser(last'.user) = n + 1)
             => /\ last'.code = 200
                /\ Len(approvals'[r]) = n + 1
                /\ approvals'[r][n + 1].status = "approved"
                     => (/\ InOrder(r, n + 1)'
                         /\ requests'[r].status = StatusAfter(n + 1))]_vars

\* the chain has run to its end
C7_Witness ==
    \E r \in DOMAIN requests :
        /\ InOrder(r, 3)
        /\ requests[r].status = "fully_approved"
        /\ Submitted({200})
        /\ last.rid = r
        /\ StepOfUser(last.user) = 3

Rank(status) ==
    CASE status = "pending" -> 0
      [] status = "approved_by_chef" -> 1
      [] status = "approved_by_logistic" -> 2
      [] status = "fully_approved" -> 3
      [] OTHER -> -1

\* C8: a successful submit_approval with decision approved never moves a
\* request to a status lower in pending < approved_by_chef <
\* approved_by_logistic < fully_approved than the one it had.
C8_ApprovedMovesForward ==
    [][\A r \in DOMAIN requests :
          (/\ last'.op = "submit_approval"
           /\ last'.code = 200
           /\ last'.rid = r
           /\ Len(approvals'[r]) = Len(approvals[r]) + 1
           /\ approvals'[r][Len(approvals'[r])].status = "approved"
           /\ Rank(requests[r].status) >= 0)
          => Rank(requests'[r].status) >= Rank(requests[r].status)]_vars

\* the status a row stands for
Projection(row) ==
    CASE row.status = "denied" -> "denied"
      [] row.status = "approved" /\ row.approval_step = 1 -> "approved_by_chef"
      [] row.status = "approved" /\ row.approval_step = 2
            -> "approved_by_logistic"
      [] row.status = "approved" /\ row.approval_step = 3 -> "fully_approved"
      [] OTHER -> "none"

\* C9: after non-overlapping calls the stored status is the projection of
\* the approval log: pending without rows, else the status the most
\* recently inserted row stands for.
C9_StatusIsProjection ==
    \A r \in DOMAIN requests :
        requests[r].status = IF approvals[r] = <<>> THEN "pending"
                             ELSE Projection(LatestRow(r))

\* a final approval after an earlier denial: the status follows the newest
\* row
C9_Witness ==
    \E r \in DOMAIN requests :
        /\ Len(approvals[r]) = 2
        /\ approvals[r][1].status = "denied"
        /\ approvals[r][2].status = "approved"
        /\ approvals[r][2].approval_step = 3
        /\ requests[r].status = "fully_approved"

\* C10: once a step of a request is decided by one user, a submission on
\* that request by any other user whose role maps to the same step ends in
\* 409 and writes nothing.
C10_ConflictPerStep ==
    [][(/\ last'.op = "submit_approval"
        /\ last'.rid \in DOMAIN requests
        /\ \E i \in RowsAt(last'.rid, StepOfUser(last'.user)) :
               approvals[last'.rid][i].approver_id # last'.user)
       => (/\ last'.code = 409
           /\ approvals' = approvals
           /\ requests' = requests)]_vars

\* a user was answered 409 on a request whose step was decided by a
\* colleague of the same step and never by that user
C10_Witness ==
    /\ Submitted({409})
    /\ last.rid \in DOMAIN requests
    /\ \A i \in 1..Len(approvals[last.rid]) :
           approvals[last.rid][i].approver_id # last.user
    /\ \E i \in RowsAt(last.rid, StepOfUser(last.user)) :
           RoleName(approvals[last.rid][i].approver_id) # RoleName(last.user)

(***************************************************************************)
(* C11: the approval_step of every row is fixed by the lower-cased role    *)
(* name of its approver alone: chef 1, logistic 2, charoi, admin and       *)
(* superadmin 3; no row has an approver of another role, and a             *)
(* submit_approval call by a caller of another role ends with 403.         *)
(***************************************************************************)
C11_StepFromRole ==
    /\ \A r \in RequestIds : \A i \in 1..Len(approvals[r]) :
          LET row == approvals[r][i]
              role == Lower(RoleName(row.approver_id))
          IN  /\ role \in {"chef", "logistic", "charoi", "admin",
                           "superadmin"}
              /\ role = "chef" => row.approval_step = 1
              /\ role = "logistic" => row.approval_step = 2
              /\ role \in {"charoi", "admin", "superadmin"}
                     => row.approval_step = 3
    /\ (/\ last.op = "submit_approval"
        /\ Lower(RoleName(last.user)) \notin
               {"chef", "logistic", "charoi", "admin", "superadmin"})
           => last.code = 403

\* a chef and an administrator (role names stored capitalised) have signed
\* a request, and a plain user's submission on it was then refused
C11_Witness ==
    /\ last.op = "submit_approval" /\ last.user = 1 /\ last.code = 403
    /\ last.rid \in DOMAIN requests
    /\ \E i, j \in 1..Len(approvals[last.rid]) :
          /\ approvals[last.rid][i].approver_id = 2
          /\ approvals[last.rid][i].approval_step = 1
          /\ approvals[last.rid][j].approver_id = 7
          /\ approvals[last.rid][j].approval_step = 3

(***************************************************************************)
(* C12: every row of request_approvals references a request that exists.   *)
(* A submit_approval call on an id without a request ends with 404 (403    *)
(* for a caller who may not approve at all) and leaves no row under that   *)
(* id; after a successful delete_request no row of the request is left.    *)
(***************************************************************************)
C12_RowsReferenceRequests ==
    /\ \A r \in RequestIds : \A i \in 1..Len(approvals[r]) :
          /\ approvals[r][i].request_id = r
          /\ approvals[r][i].request_id \in DOMAIN requests
    /\ (last.op = "submit_approval" /\ last.rid \notin DOMAIN requests)
           => /\ last.code =
                    IF Lower(RoleName(last.user)) \in
                          {"chef", "logistic", "charoi", "admin", "superadmin"}
                    THEN 404 ELSE 403
              /\ approvals[last.rid] = <<>>
    /\ (last.op = "delete_request" /\ last.code = 204)
           => /\ last.rid \notin DOMAIN requests
              /\ approvals[last.rid] = <<>>

\* a logistics officer's submission on a request that has been deleted
C12_Witness ==
    /\ last.op = "submit_approval" /\ last.user = 4 /\ last.code = 404
    /\ last.rid < next_id
    /\ last.rid \notin DOMAIN requests
    /\ approvals[last.rid] = <<>>

(***************************************************************************)
(* C13: the rows of a request are an append-only log.  In every step the   *)
(* rows a request had are still there, in place and field for field        *)
(* (approval_step, status, comments, approver), with at most new rows      *)
(* after them, unless that step deletes the request.                       *)
(***************************************************************************)
IsPrefix(s, t) ==
    /\ Len(s) <= Len(t)
    /\ \A i \in 1..Len(s) : t[i] = s[i]

C13_AppendOnly ==
    [][\A r \in RequestIds :
          ~IsPrefix(approvals[r], approvals'[r])
              => /\ r \in DOMAIN requests
                 /\ r \notin DOMAIN requests'
                 /\ approvals'[r] = <<>>]_vars

(***************************************************************************)
(* C14: a delete_request call on an existing request succeeds exactly when *)
(* the caller's role is admin or superadmin, or the caller is the          *)
(* requester and the status is pending; then the request is gone.  Every   *)
(* other call ends with 403 and leaves the request and its rows as they    *)
(* were.                                                                   *)
(***************************************************************************)
C14_DeleteRule ==
    [][(last'.op = "delete_request" /\ last'.rid \in DOMAIN requests)
          => IF \/ Lower(RoleName(last'.user)) \in {"admin", "superadmin"}
                \/ /\ requests[last'.rid].requester_id = last'.user
                   /\ requests[last'.rid].status = "pending"
             THEN /\ last'.code = 204
                  /\ last'.rid \notin DOMAIN requests'
             ELSE /\ last'.code = 403
                  /\ requests' = requests
                  /\ approvals' = approvals]_vars

\* a chef, not the owner, was refused the deletion of a pending request
C14_Witness ==
    /\ last.op = "delete_request" /\ last.user = 2 /\ last.code = 403
    /\ last.rid \in DOMAIN requests
    /\ requests[last.rid].status = "pending"
    /\ requests[last.rid].requester_id # last.user

(***************************************************************************)
(* C15: a request that holds an approval row is never pending, and a       *)
(* delete_request call on it by a caller who is neither admin nor          *)
(* superadmin, its owner included, ends with 403 and changes nothing.      *)
(***************************************************************************)
C15_NoDeleteAfterApproval ==
    [][/\ \A r \in DOMAIN requests' :
             approvals'[r] # <<>> => requests'[r].status # "pending"
       /\ (/\ last'.op = "delete_request"
           /\ last'.rid \in DOMAIN requests
           /\ approvals[last'.rid] # <<>>
           /\ Lower(RoleName(last'.user)) \notin {"admin", "superadmin"})
              => /\ last'.code = 403
                 /\ last'.rid \in DOMAIN requests'
                 /\ requests' = requests
                 /\ approvals' = approvals]_vars

\* the owner was refused the deletion of their request after a denial
C15_Witness ==
    /\ last.op = "delete_request" /\ last.code = 403
    /\ last.rid \in DOMAIN requests
    /\ requests[last.rid].requester_id = last.user
    /\ requests[last.rid].status = "denied"
    /\ Len(approvals[last.rid]) = 1

(***************************************************************************)
(* C16: what GET /api/v1/requests/ returns to a caller with role logistic  *)
(* holds only requests whose status is approved_by_chef, none twice, and   *)
(* holds every such request whose place among them, newest first, lies     *)
(* within the window skip+1 .. skip+limit.                                 *)
(***************************************************************************)
\* the place of request id among the requests in ids, newest first
Place(id, ids) == Cardinality({y \in ids : y >= id})

InBody(id, body) == \E i \in 1..Len(body) : body[i] = id

NoRepeats(body) ==
    \A i, j \in 1..Len(body) : body[i] = body[j] => i = j

WithStatus(status) == {id \in DOMAIN requests : requests[id].status = status}

C16_LogisticQueue ==
    \A u \in users, limit \in Limits, skip \in Skips :
        Lower(RoleName(u)) = "logistic" =>
            LET res == get_all_requests(u, limit, skip)
                queue == WithStatus("approved_by_chef")
            IN  /\ res.code = 200
                /\ NoRepeats(res.body)
                /\ \A i \in 1..Len(res.body) : res.body[i] \in queue
                /\ \A id \in queue :
                      (skip < Place(id, queue) /\ Place(id, queue) <= skip + limit)
                          => InBody(id, res.body)

\* the chef has approved a request: it is in the logistic officers' list,
\* and an offset of one moves it out of the window
C16_Witness ==
    \E id \in DOMAIN requests :
        /\ requests[id].status = "approved_by_chef"
        /\ get_all_requests(4, 2, 0).body = <<id>>
        /\ get_all_requests(5, 1, 1).body = <<>>
        /\ get_all_requests(6, 2, 0).body = <<>>

(***************************************************************************)
(* C17: what GET /api/v1/requests/ returns to a caller with role charoi    *)
(* holds only requests whose status is approved_by_logistic, none twice,   *)
(* and holds every such request whose place among them, newest first,      *)
(* lies within the window skip+1 .. skip+limit.                            *)
(***************************************************************************)
C17_CharoiQueue ==
    \A u \in users, limit \in Limits, skip \in Skips :
        Lower(RoleName(u)) = "charoi" =>
            LET res == get_all_requests(u, limit, skip)
                queue == WithStatus("approved_by_logistic")
            IN  /\ res.code = 200
                /\ NoRepeats(res.body)
                /\ \A i \in 1..Len(res.body) : res.body[i] \in queue
                /\ \A id \in queue :
                      (skip < Place(id, queue) /\ Place(id, queue) <= skip + limit)
                          => InBody(id, res.body)

\* the logistic officer has approved a request: it is in the charoi's list
\* and no longer in the logistic officers'; a limit of zero returns nothing
C17_Witness ==
    \E id \in DOMAIN requests :
        /\ requests[id].status = "approved_by_logistic"
        /\ get_all_requests(6, 1, 0).body = <<id>>
        /\ get_all_requests(6, 0, 0).body = <<>>
        /\ get_all_requests(4, 2, 0).body = <<>>

(***************************************************************************)
(* C18: what GET /api/v1/requests/ returns to a caller with role chef      *)
(* holds only requests whose requester has the chef's service_id, and,     *)
(* whatever their status, every such request within the window; a chef     *)
(* whose service_id is None gets the empty list.                           *)
(***************************************************************************)
OfService(service_id) ==
    {id \in DOMAIN requests :
        /\ requests[id].requester_id # None
        /\ ServiceId(requests[id].requester_id) = service_id}

C18_ChefDepartment ==
    \A u \in users, limit \in Limits, skip \in Skips :
        Lower(RoleName(u)) = "chef" =>
            LET res == get_all_requests(u, limit, skip)
                own == OfService(ServiceId(u))
            IN  /\ res.code = 200
                /\ ServiceId(u) = None => res.body = <<>>
                /\ NoRepeats(res.body)
                /\ \A i \in 1..Len(res.body) : res.body[i] \in own
                /\ ServiceId(u) # None =>
                      \A id \in own :
                          (skip < Place(id, own) /\ Place(id, own) <= skip + limit)
                              => InBody(id, res.body)

\* a denied request of a requester of service 1 is in the list of the chef
\* of service 1; the chef without a service gets nothing
C18_Witness ==
    \E id \in DOMAIN requests :
        /\ requests[id].requester_id = 1
        /\ requests[id].status = "denied"
        /\ get_all_requests(2, 2, 0).body = <<id>>
        /\ get_all_requests(3, 2, 0) = [code |-> 200, body |-> <<>>]

(***************************************************************************)
(* C19: what GET /api/v1/requests/my-requests returns to a caller holds    *)
(* only requests whose requester_id is the caller's id, never another      *)
(* user's, and, whatever their status and assignment, every request of     *)
(* the caller within the window.                                           *)
(***************************************************************************)
RequestsOf(u) == {id \in DOMAIN requests : requests[id].requester_id = u}

C19_OnlyOwnRequests ==
    \A u \in users, limit \in Limits, skip \in Skips :
        LET res == get_my_requests(u, limit, skip)
            own == RequestsOf(u)
        IN  /\ res.code = 200
            /\ NoRepeats(res.body)
            /\ \A i \in 1..Len(res.body) :
                  /\ res.body[i] \in DOMAIN requests
                  /\ requests[res.body[i]].requester_id = u
            /\ \A id \in own :
                  (skip < Place(id, own) /\ Place(id, own) <= skip + limit)
                      => InBody(id, res.body)

\* a request of user 1 that the charoi has approved and given a vehicle and
\* a driver is in user 1's list and in nobody else's
C19_Witness ==
    \E id \in DOMAIN requests :
        /\ requests[id].requester_id = 1
        /\ requests[id].status = "fully_approved"
        /\ assignment[id] = [vehicle_id |-> 1, driver_id |-> 6]
        /\ get_my_requests(1, 2, 0).body = <<id>>
        /\ \A u \in users \ {1} : get_my_requests(u, 2, 0).body = <<>>

(***************************************************************************)
(* C20: GET /api/v1/requests/{id} on an existing request returns it when   *)
(* the caller's role is admin, superadmin, logistic or charoi, or the      *)
(* caller is the requester, or the caller is a chef whose service_id is    *)
(* not None and equals the requester's; every other caller gets 403.       *)
(***************************************************************************)
C20_ViewRule ==
    \A u \in users, id \in DOMAIN requests :
        LET role == Lower(RoleName(u))
            requester == requests[id].requester_id
            allowed ==
                \/ role \in {"admin", "superadmin", "logistic", "charoi"}
                \/ requester = u
                \/ /\ role = "chef"
                   /\ ServiceId(u) # None
                   /\ requester # None
                   /\ ServiceId(requester) = ServiceId(u)
        IN  get_request_by_id(u, id) =
                IF allowed THEN [code |-> 200, body |-> id]
                ELSE [code |-> 403, body |-> None]

\* a request of the logistic officer of service 2: the owner and the charoi
\* may view it; the chef of service 1, the chef without a service and the
\* plain user of service 1 may not
C20_Witness ==
    \E id \in DOMAIN requests :
        /\ requests[id].requester_id = 4
        /\ get_request_by_id(4, id).code = 200
        /\ get_request_by_id(6, id).code = 200
        /\ get_request_by_id(2, id).code = 403
        /\ get_request_by_id(3, id).code = 403
        /\ 1 \in users /\ get_request_by_id(1, id).code = 403

(***************************************************************************)
(* C21: an update_request_assignment call that succeeds leaves every       *)
(* request's requester and status and every approval row as they were and  *)
(* changes vehicle_id and driver_id of the addressed request only; a call  *)
(* by an admin, superadmin, charoi or logistic caller on an id without a   *)
(* request ends with 404; a call that does not succeed changes nothing.    *)
(***************************************************************************)
C21_AssignmentFrame ==
    [][last'.op = "update_request_assignment" =>
          /\ requests' = requests
          /\ approvals' = approvals
          /\ \A r \in RequestIds \ {last'.rid} : assignment'[r] = assignment[r]
          /\ last'.code # 200 => assignment' = assignment
          /\ (/\ Lower(RoleName(last'.user)) \in
                     {"admin", "superadmin", "charoi", "logistic"}
              /\ last'.rid \notin DOMAIN requests)
                 => last'.code = 404]_vars

\* the charoi has given a vehicle and a driver to a request the chef had
\* approved: the status and the row are as the chef left them
C21_Witness ==
    /\ last.op = "update_request_assignment" /\ last.code = 200
    /\ last.user = 6
    /\ assignment[last.rid] = [vehicle_id |-> 1, driver_id |-> 6]
    /\ requests[last.rid].status = "approved_by_chef"
    /\ Len(approvals[last.rid]) = 1

(***************************************************************************)
(* C22: no two vehicles share a plate_number or a vin, and a               *)
(* create_vehicle or update_vehicle call by an administrator whose body    *)
(* carries a plate_number or vin held by a different vehicle ends with     *)
(* 409.                                                                    *)
(***************************************************************************)
C22_UniquePlateAndVin ==
    /\ \A i, j \in 1..Len(vehicles) :
          (\/ vehicles[i].plate_number = vehicles[j].plate_number
           \/ vehicles[i].vin = vehicles[j].vin) => i = j
    /\ (/\ last.op \in {"create_vehicle", "update_vehicle"}
        /\ Lower(RoleName(last.user)) \in {"admin", "superadmin"}
        /\ last.op = "update_vehicle" => last.rid \in 1..Len(vehicles)
        /\ \E j \in 1..Len(vehicles) :
              /\ j # last.rid
              /\ \/ vehicles[j].plate_number = last.data.plate_number
                 \/ vehicles[j].vin = last.data.vin)
           => last.code = 409

(***************************************************************************)
(* C23: every stored fuel record has quantity > 0 and price_little > 0,    *)
(* and a create or update call that reaches the validation with a          *)
(* quantity or price_little of zero or less ends with 400 and leaves the   *)
(* table as it was.                                                        *)
(***************************************************************************)
NonPositive(data, field) == field \in DOMAIN data /\ data[field] <= 0

C23_PositiveFuel ==
    [][/\ \A i \in 1..Len(fuel') :
             fuel'[i].quantity > 0 /\ fuel'[i].price_little > 0
       /\ (/\ last'.op \in {"create_new_fuel_record",
                             "update_existing_fuel_record"}
           /\ \/ NonPositive(last'.data, "quantity")
              \/ NonPositive(last'.data, "price_little"))
              => /\ last'.code \in {400, 403, 404}
                 /\ fuel' = fuel
       /\ (/\ last'.op = "create_new_fuel_record"
           /\ last'.data.vehicle_id \in 1..Len(vehicles)
           /\ last'.data.fuel_type_id \in FuelTypes
           /\ \/ NonPositive(last'.data, "quantity")
              \/ NonPositive(last'.data, "price_little"))
              => last'.code = 400
       /\ (/\ last'.op = "update_existing_fuel_record"
           /\ Lower(RoleName(last'.user)) \in {"admin", "superadmin"}
           /\ last'.rid \in 1..Len(fuel)
           /\ \/ NonPositive(last'.data, "quantity")
              \/ NonPositive(last'.data, "price_little"))
              => last'.code = 400]_vars

\* the administrator's update of a stored record to a price of zero was
\* refused and the record kept its quantity and price
C23_Witness ==
    /\ last.op = "update_existing_fuel_record" /\ last.code = 400
    /\ last.data = [price_little |-> 0]
    /\ fuel[last.rid].quantity = 2
    /\ fuel[last.rid].price_little = 1
    /\ fuel[last.rid].cost = 2


(***************************************************************************)
(* C24: the approval chain is not enforced in order.  On a pending request *)
(* with no step-1 row a submission by a logistic user (step 2) or by a     *)
(* charoi, admin or superadmin user (step 3) is accepted: it inserts the   *)
(* row of that step and sets the status from that step alone:              *)
(* approved_by_logistic or fully_approved on approval, denied on denial.   *)
(***************************************************************************)
C24_OutOfOrderAccepted ==
    [][(/\ last'.op = "submit_approval"
        /\ last'.rid \in DOMAIN requests
        /\ requests[last'.rid].status = "pending"
        /\ RowsAt(last'.rid, 1) = {}
        /\ StepOfUser(last'.user) \in {2, 3})
       => LET rows == approvals'[last'.rid]
              row == rows[Len(rows)]
          IN  /\ last'.code = 200
              /\ Len(rows) = Len(approvals[last'.rid]) + 1
              /\ row.approval_step = StepOfUser(last'.user)
              /\ row.approver_id = last'.user
              /\ \A i \in 1..Len(rows) : rows[i].approval_step # 1
              /\ requests'[last'.rid].status =
                     IF row.status = "denied" THEN "denied"
                     ELSE IF StepOfUser(last'.user) = 2
                          THEN "approved_by_logistic"
                          ELSE "fully_approved"]_vars

\* a request went from pending to fully_approved by a single step-3 row,
\* with no chef or logistic row
C24_Witness ==
    /\ Submitted({200})
    /\ last.rid \in DOMAIN requests
    /\ StepOfUser(last.user) = 3
    /\ Len(approvals[last.rid]) = 1
    /\ LatestRow(last.rid).approval_step = 3
    /\ LatestRow(last.rid).status = "approved"
    /\ requests[last.rid].status = "fully_approved"

(***************************************************************************)
(* C25: a request takes at most three successful submissions.  Once steps  *)
(* 1, 2 and 3 each have a row, every further submission on the request by  *)
(* a user of an approval role ends in 409 and leaves the rows and the      *)
(* status as they were.                                                    *)
(***************************************************************************)
AllStepsDecided(r) == \A s \in Steps : RowsAt(r, s) # {}

ChainTo(r, n) ==
    /\ Len(approvals[r]) = n
    /\ \A i \in 1..n : approvals[r][i].approval_step = i
    /\ \A i \in 1..(n - 1) : approvals[r][i].status = "approved"

\* request r is in what the listing returns to u, the window holding every
\* request
Listed(u, r) == InBody(r, get_all_requests(u, MaxRequests, 0).body)

C26_QueueHandOff ==
    \A r \in DOMAIN requests, n \in Steps :
        ChainTo(r, n) =>
            \A u \in users :
                /\ Lower(RoleName(u)) = "logistic" =>
                       (Listed(u, r) <=>
                            (n = 1 /\ approvals[r][n].status = "approved"))
                /\ Lower(RoleName(u)) = "charoi" =>
                       (Listed(u, r) <=>
                            (n = 2 /\ approvals[r][n].status = "approved"))

\* the logistic officer has just approved after the chef: the request left
\* the logistic queue and is in the charoi's
C26_Witness ==
    \E r \in DOMAIN requests :
        /\ ChainTo(r, 2)
        /\ approvals[r][2].status = "approved"
        /\ Submitted({200})
        /\ last.rid = r
        /\ StepOfUser(last.user) = 2
        /\ ~Listed(4, r)
        /\ ~Listed(5, r)
        /\ Listed(6, r)


(***************************************************************************)
(* C27: no operation of the request and approval routers sets the status   *)
(* in_progress or completed.  In every state reached by create_request,    *)
(* submit_approval, update_request_assignment and delete_request calls     *)
(* the status of every request is pending, approved_by_chef,               *)
(* approved_by_logistic, fully_approved or denied; a new request starts    *)
(* pending, with the caller as requester and no approval rows.             *)
(***************************************************************************)
WorkflowStatuses ==
    {"pending", "approved_by_chef", "approved_by_logistic", "fully_approved",
     "denied"}

C27_WorkflowStatusesOnly ==
    [][/\ \A r \in DOMAIN requests' : requests'[r].status \in WorkflowStatuses
       /\ last'.op = "create_request"
             => /\ last'.rid \notin DOMAIN requests
                /\ requests'[last'.rid] =
                       [requester_id |-> last'.user, status |-> "pending"]
                /\ approvals'[last'.rid] = <<>>]_vars

\* a request approved by the chef and then by the charoi has been given a
\* vehicle and a driver: its status is still fully_approved
C27_Witness ==
    /\ last.op = "update_request_assignment" /\ last.code = 200
    /\ requests[last.rid].status = "fully_approved"
    /\ assignment[last.rid] = [vehicle_id |-> 1, driver_id |-> 6]
    /\ Len(approvals[last.rid]) = 2


(***************************************************************************)
(* C28: after create_new_trip and update_existing_trip calls that do not   *)
(* overlap in time, no two distinct trips that both have an end_time and   *)
(* share the vehicle or the driver overlap (one starts before the other    *)
(* ends and ends after the other starts); a create or an update that would *)
(* make such a pair ends with 409 and changes nothing.                     *)
(***************************************************************************)
\* trips a and b, both ended, share a party and overlap
Clash(a, b) ==
    /\ a.end_time # None
    /\ b.end_time # None
    /\ \/ a.vehicle_id = b.vehicle_id
       \/ a.driver_id = b.driver_id
    /\ a.start_time < b.end_time
    /\ a.end_time > b.start_time

\* the trip the call would store at place id of rows: the body as the new
\* row, or the stored row with the fields of the body written over it
Intended(rows, id, data) ==
    IF id \in 1..Len(rows)
    THEN [f \in DOMAIN rows[id] |->
             IF f \in DOMAIN data THEN data[f] ELSE rows[id][f]]
    ELSE data

C28_NoOverlappingTrips ==
    [][/\ \A i, j \in 1..Len(trips') :
             i # j => ~Clash(trips'[i], trips'[j])
       /\ (/\ last'.op \in {"create_new_trip", "update_existing_trip"}
           /\ last'.op = "update_existing_trip" => last'.rid \in 1..Len(trips)
           /\ \E j \in 1..Len(trips) :
                  /\ j # last'.rid
                  /\ Clash(Intended(trips, last'.rid, last'.data), trips[j]))
          => (/\ last'.code \in {404, 409}
              /\ trips' = trips
              /\ (/\ Intended(trips, last'.rid, last'.data).vehicle_id
                          \in 1..Len(vehicles)
                  /\ Intended(trips, last'.rid, last'.data).driver_id
                          \in Drivers)
                     => last'.code = 409)]_vars

\* an open-ended trip could not be given an end_time that reaches into a
\* later trip of the same driver with another vehicle
C28_Witness ==
    /\ last.op = "update_existing_trip" /\ last.code = 409
    /\ last.data = [end_time |-> 3]
    /\ Len(trips) = 2
    /\ trips[last.rid].end_time = None
    /\ \E j \in 1..Len(trips) :
           /\ trips[j].driver_id = trips[last.rid].driver_id
           /\ trips[j].vehicle_id # trips[last.rid].vehicle_id
           /\ trips[j].end_time = 3


(***************************************************************************)
(* C29: for a vehicle that exists check_fuel_eligibility answers eligible  *)
(* exactly when the vehicle's status is 'available' and the vehicle has no *)
(* fuel record or has a trip with status 'Completed' whose end_time is     *)
(* later than the created_at of its most recent fuel record, that is,      *)
(* later than the created_at of each of its fuel records; for a vehicle id *)
(* that does not exist it answers 404.                                     *)
(***************************************************************************)
FuelOf(v) == {i \in 1..Len(fuel) : fuel[i].vehicle_id = v}

CompletedAfterAll(v) ==
    \E t \in 1..Len(trips) :
        /\ trips[t].vehicle_id = v
        /\ trips[t].status = "Completed"
        /\ trips[t].end_time # None
        /\ \A i \in FuelOf(v) : trips[t].end_time > fuel[i].created_at

C29_Eligibility ==
    \A v \in 1..(MaxVehicles + 1) :
        IF v \in 1..Len(vehicles)
        THEN /\ check_fuel_eligibility(v).code = 200
             /\ check_fuel_eligibility(v).eligible <=>
                    /\ vehicles[v].status = "available"
                    /\ FuelOf(v) = {} \/ CompletedAfterAll(v)
        ELSE check_fuel_eligibility(v).code = 404

\* vehicle 1 was fuelled, completed a trip, and was fuelled again after the
\* trip's end: it is not eligible, though the trip ended after the first
\* fuel record; vehicle 2 has no fuel record and is eligible
C29_Witness ==
    /\ Len(vehicles) = 2
    /\ vehicles[1].status = "available"
    /\ Len(fuel) = 2
    /\ fuel[1].created_at = 1
    /\ fuel[2].created_at = MaxTime
    /\ \E t \in 1..Len(trips) :
           /\ trips[t].vehicle_id = 1
           /\ trips[t].status = "Completed"
           /\ trips[t].end_time = 2
    /\ ~check_fuel_eligibility(1).eligible
    /\ check_fuel_eligibility(2).eligible
    /\ check_fuel_eligibility(3).code = 404


(***************************************************************************)
(* C30: a caller whose role is neither admin nor superadmin never changes  *)
(* a role or an account status through update_user.  Such a call succeeds  *)
(* only when the target is the caller and the body sets neither role_id    *)
(* nor status; on an existing target it is otherwise refused with 403 and  *)
(* the target is unchanged; and no such call changes the role_id or the    *)
(* status of any user.                                                     *)
(***************************************************************************)
\* the role name of u, as stored, is neither "admin" nor "superadmin":
\* every role that is neither of them in lower case, and a role stored
\* as "Admin"
NotAdmin(u) == RoleNames[accounts[u].role_id] \notin {"admin", "superadmin"}

SetsRoleOrStatus(data) == "role_id" \in DOMAIN data \/ "status" \in DOMAIN data

C30_NoSelfPromotion ==
    [][(/\ last'.op = "update_user"
        /\ last'.user \in users
        /\ accounts[last'.user].status = "active"
        /\ NotAdmin(last'.user))
       => (/\ \A x \in Users : /\ accounts'[x].role_id = accounts[x].role_id
                               /\ accounts'[x].status = accounts[x].status
           /\ last'.code = 200
                 => /\ last'.rid = last'.user
                    /\ ~SetsRoleOrStatus(last'.data)
           /\ (/\ last'.rid \in users
               /\ \/ last'.rid # last'.user
                  \/ SetsRoleOrStatus(last'.data))
                 => /\ last'.code = 403
                    /\ accounts' = accounts)]_vars

\* user 1 has changed its own first name and was then refused the role
\* superadmin on its own row
C30_Witness ==
    /\ last.op = "update_user" /\ last.code = 403
    /\ last.user = 1 /\ last.rid = 1
    /\ last.data = [role_id |-> 6]
    /\ accounts[1] = [role_id |-> 1, status |-> "active", first_name |-> "b"]

====
